---- MODULE Spec2Model ----
(***************************************************************************)
(* The TTL LRU cache of package ttl (src/unnamed/part_000): the recency    *)
(* list, the key index, the ring of expiration buckets, the public         *)
(* operations and the sweeper goroutine with its ticker.                   *)
(*                                                                         *)
(* Every public operation holds c.mu from its first to its last statement, *)
(* so each is one atomic action.  deleteExpired gives the mutex up only    *)
(* around time.Sleep, so it is one action when it does not sleep and two   *)
(* (before and after the sleep) when it does.  A last specification,       *)
(* SpecLock, shows the mutex itself: there the sweeper's Lock, its Unlock   *)
(* before the sleep and its Lock after it are steps of their own.          *)
(*                                                                         *)
(* Time is a natural number; the clock starts at 1 so that the zero        *)
(* time.Time of a fresh bucket (0 here) lies before every reading of it.   *)
(* The ticker and the sweeper run on time: the clock does not pass an      *)
(* instant at which a tick is due, a tick waits for the idle sweeper, or   *)
(* a sleep is over.  Public operations interleave freely with those steps  *)
(* at every instant.                                                       *)
(***************************************************************************)
EXTENDS Integers, Sequences, FiniteSets, TLC

\* ------------------------------------------------------------------ bounds
\* Length of the bucket ring.  The source fixes it at 100 (part_000:35); the
\* model keeps it a parameter of every definition and checks a short ring, so
\* that whole sweep cycles (an entry is only swept after the cursor has gone
\* once around) lie inside the explored horizon.
numBuckets == 2
\* Last instant of the clock that Spec explores: a full cycle of the ring at
\* a period of 1, and the sleep that ends it.
MaxTime == numBuckets + 2

Keys == {"A", "B", "C"}
Values == {1, 2}
\* The nil value returned with found = false.
Nil == 0
\* The length of the ring in the source (part_000:35), for the arithmetic of
\* the bucket index only.
numBucketsSource == 100

\* What NewLRU is called with: (cap, ttl).  ttl = numBuckets gives a ticker
\* period of 1.  The capacities that clamp to 0 never evict, so they are
\* explored without a sweeper.
Inputs ==
    ({1, 2} \X {-1, 0, numBuckets}) \cup ({-1, 0} \X {-1, 0})

BucketIds == 0 .. (numBuckets - 1)

VARIABLES
    cap,                \* LRU.cap
    ttl,                \* LRU.ttl
    queue,              \* LRU.queue: keys of the list elements, front first
    items,              \* LRU.items: the keys of the map
    elem,               \* the Item behind each key's list element
    buckets,            \* LRU.buckets
    nextCleanupBucket,  \* LRU.nextCleanupBucket (uint8)
    now,                \* the clock, time.Now()
    nextTick,           \* when the ticker sends next
    tickC,              \* ticker.C, a channel of capacity 1: TRUE when full
    sweeper,            \* the goroutine: where it is, and deleteExpired's locals
    mu,                 \* LRU.mu: who holds the mutex between two steps
    ret,                \* history: the last public operation and what it returned
    touched             \* history: the live keys by last touch, most recent first

vars == <<cap, ttl, queue, items, elem, buckets, nextCleanupBucket, now,
          nextTick, tickC, sweeper, mu, ret, touched>>

\* -------------------------------------------------------------- data types
\* An Item (part_000:9-15).  AddedAt is history only: the clock reading of
\* the Add that last wrote the item.
NoElem == [Value |-> Nil, ExpiresAt |-> 0, ExpireBucket |-> 0, AddedAt |-> 0]

\* ret.key, ret.val, ret.found: the values returned (a key only by
\* RemoveOldest; for Add, which returns nothing, ret.key is the key it evicted).
\* ret.arg: the key the operation was called with.  ret.hit: for Add, whether
\* the key was in the index.  ret.stale: whether the entry the operation
\* read, returned or evicted had now > ExpiresAt at the call.
Ret(op, arg, key, val, found, hit, stale) ==
    [op |-> op, arg |-> arg, key |-> key, val |-> val, found |-> found,
     hit |-> hit, stale |-> stale]

NoRet == Ret("none", "", "", Nil, FALSE, FALSE, FALSE)

Uint8(x) == x % 256

\* ticker period: res.ttl / numBuckets, integer division of the duration.
period == ttl \div numBuckets

\* ------------------------------------------------------- container/list
RECURSIVE listRemove(_, _)
listRemove(q, k) ==
    IF q = <<>> THEN <<>>
    ELSE IF Head(q) = k THEN Tail(q)
    ELSE <<Head(q)>> \o listRemove(Tail(q), k)

InList(q, k) == \E i \in 1 .. Len(q) : q[i] = k

pushFront(q, k) == <<k>> \o q

moveToFront(q, k) == IF InList(q, k) THEN <<k>> \o listRemove(q, k) ELSE q

\* queue.Back(): the key of the last element, or none
hasBack(q) == Len(q) > 0
back(q) == q[Len(q)]

\* --------------------------------------------------------- the cache state
\* The fields of the LRU that its methods rewrite, as one record.
Cache ==
    [queue |-> queue, items |-> items, elem |-> elem, buckets |-> buckets,
     nextCleanupBucket |-> nextCleanupBucket]

\* part_000:191-193
removeFromBucket(s, k) ==
    [s EXCEPT !.buckets[s.elem[k].ExpireBucket].entries = @ \ {k}]

\* A faulty bucket index, the cursor's own bucket; C15 and C17 do not hold of
\* it.
bucketIdAtCursor(cursor) == Uint8(cursor) % numBuckets

\* part_000:183, for a ring of any length: uint8 arithmetic
bucketIdIn(ring, cursor) == Uint8(ring + cursor - 1) % ring

\* part_000:183
bucketIdFor(cursor) == bucketIdIn(numBuckets, cursor)

\* A faulty addToBucket that leaves newestEntry alone; C17 does not hold of
\* it.
addToBucketKeepsNewest(s, k) ==
    LET bucketId == bucketIdFor(s.nextCleanupBucket)
    IN  [s EXCEPT !.elem[k].ExpireBucket = bucketId,
                  !.buckets[bucketId].entries = @ \cup {k}]

\* part_000:182-189
addToBucket(s, k) ==
    LET bucketId == bucketIdFor(s.nextCleanupBucket)
        exp == s.elem[k].ExpiresAt
    IN  [s EXCEPT !.elem[k].ExpireBucket = bucketId,
                  !.buckets[bucketId].entries = @ \cup {k},
                  !.buckets[bucketId].newestEntry = IF @ < exp THEN exp ELSE @]

\* A faulty removeElement that leaves the key in its bucket; C6 does not hold
\* of it.
removeElementKeepsBucket(s, k) ==
    [s EXCEPT !.queue = listRemove(@, k), !.items = @ \ {k}]

\* part_000:160-164
removeElement(s, k) ==
    removeFromBucket([s EXCEPT !.queue = listRemove(@, k),
                               !.items = @ \ {k}], k)

\* part_000:154-158
removeOldest(s) ==
    IF hasBack(s.queue) THEN removeElement(s, back(s.queue)) ELSE s

\* part_000:175-177: the loop over the bucket's entries
RECURSIVE removeAll(_, _)
removeAll(s, ks) ==
    IF ks = {} THEN s
    ELSE LET k == CHOOSE x \in ks : TRUE
         IN  removeAll(removeElement(s, k), ks \ {k})

\* An Item nothing refers to any more is garbage: its fields are forgotten.
Referenced(s, k) ==
    \/ k \in s.items
    \/ InList(s.queue, k)
    \/ \E b \in BucketIds : k \in s.buckets[b].entries

collect(s) ==
    [s EXCEPT !.elem = [k \in Keys |-> IF Referenced(s, k) THEN s.elem[k] ELSE NoElem]]

\* Commit a rewritten cache record to the variables.
Store(s) ==
    LET t == collect(s)
    IN  /\ queue' = t.queue
        /\ items' = t.items
        /\ elem' = t.elem
        /\ buckets' = t.buckets
        /\ nextCleanupBucket' = t.nextCleanupBucket

\* history: a touch moves the key to the front of the touch order; keys that
\* have left the key index are dropped from it
touch(h, k) == <<k>> \o listRemove(h, k)

live(h, ks) == SelectSeq(h, LAMBDA k : k \in ks)

\* ----------------------------------------------------------------- NewLRU
\* part_000:37-76
clamp(x) == IF x < 0 THEN 0 ELSE x

NewLRU(capIn, ttlIn) ==
    /\ cap = clamp(capIn)
    /\ ttl = clamp(ttlIn)
    /\ queue = <<>>
    /\ items = {}
    /\ elem = [k \in Keys |-> NoElem]
    /\ buckets = [b \in BucketIds |-> [entries |-> {}, newestEntry |-> 0]]
    /\ nextCleanupBucket = 0
    /\ now = 1
    /\ nextTick = IF clamp(ttlIn) \div numBuckets > 0
                  THEN 1 + clamp(ttlIn) \div numBuckets ELSE 0
    /\ tickC = FALSE
    /\ sweeper = [pc |-> IF clamp(ttlIn) = 0 THEN "off"
                         ELSE IF clamp(ttlIn) \div numBuckets > 0 THEN "idle"
                         ELSE "starting",
                  bucketIdx |-> 0, wakeAt |-> 0]
    /\ mu = "unlocked"
    /\ ret = NoRet
    /\ touched = <<>>

Init == \E in \in Inputs : NewLRU(in[1], in[2])

\* ------------------------------------------------------ public operations
\* A faulty expiry test that never fires; C4 does not hold of it.
expiredNever(e) == FALSE

\* part_000:125: time.Now().After(ExpiresAt)
expired(e) == now > e.ExpiresAt

\* A faulty update that leaves the entry in its old bucket; C16 does not hold
\* of it.
addExistingKeepsBucket(s, key, value) ==
    LET s1 == [s EXCEPT !.queue = moveToFront(@, key)]
        s3 == [s1 EXCEPT !.elem[key].Value = value,
                         !.elem[key].ExpiresAt = now + ttl,
                         !.elem[key].AddedAt = now]
    IN  addToBucket(s3, key)

\* A faulty update that keeps the old value; C3 does not hold of it.
addExistingKeepsValue(s, key, value) ==
    LET s1 == [s EXCEPT !.queue = moveToFront(@, key)]
        s2 == removeFromBucket(s1, key)
        s3 == [s2 EXCEPT !.elem[key].ExpiresAt = now + ttl,
                         !.elem[key].AddedAt = now]
    IN  addToBucket(s3, key)

\* part_000:97-104: the key is in the index
addExisting(s, key, value) ==
    LET s1 == [s EXCEPT !.queue = moveToFront(@, key)]
        s2 == removeFromBucket(s1, key)
        s3 == [s2 EXCEPT !.elem[key].Value = value,
                         !.elem[key].ExpiresAt = now + ttl,
                         !.elem[key].AddedAt = now]
    IN  addToBucket(s3, key)

\* A faulty capacity test that also fires above the capacity; C12 does not
\* hold of it.
atCapacityOrAbove(s) == Cardinality(s.items) >= cap

\* A faulty capacity test that lets one entry too many in; C1 does not hold
\* of it.
atCapacityLate(s) == Cardinality(s.items) = cap + 1

\* part_000:106
atCapacity(s) == Cardinality(s.items) = cap

\* part_000:106-117: the key is new
addNew(s, key, value) ==
    LET s1 == IF atCapacity(s) THEN removeOldest(s) ELSE s
        s2 == [s1 EXCEPT !.elem[key] = [Value |-> value, ExpiresAt |-> now + ttl,
                                        ExpireBucket |-> 0, AddedAt |-> now],
                         !.queue = pushFront(@, key),
                         !.items = @ \cup {key}]
    IN  addToBucket(s2, key)

\* part_000:92-118
addOp(s, key, value) ==
    collect(IF key \in s.items THEN addExisting(s, key, value)
                               ELSE addNew(s, key, value))

\* A faulty Get that does not move the key to the front; C2 does not hold of
\* it.
getOpNoMove(s, key) ==
    IF key \in s.items /\ ~expired(s.elem[key])
    THEN [s |-> s, val |-> s.elem[key].Value, found |-> TRUE]
    ELSE [s |-> s, val |-> Nil, found |-> FALSE]

\* part_000:120-132
getOp(s, key) ==
    IF key \in s.items /\ ~expired(s.elem[key])
    THEN [s |-> [s EXCEPT !.queue = moveToFront(@, key)],
          val |-> s.elem[key].Value, found |-> TRUE]
    ELSE [s |-> s, val |-> Nil, found |-> FALSE]

\* part_000:134-142
removeOp(s, key) ==
    IF key \in s.items
    THEN [s |-> collect(removeElement(s, key)), found |-> TRUE]
    ELSE [s |-> s, found |-> FALSE]

\* A faulty RemoveOldest that declines to return an expired entry; C8 does
\* not hold of it.
removeOldestOpFresh(s) ==
    IF hasBack(s.queue) /\ ~expired(s.elem[back(s.queue)])
    THEN [s |-> collect(removeElement(s, back(s.queue))), key |-> back(s.queue),
          val |-> s.elem[back(s.queue)].Value, found |-> TRUE]
    ELSE [s |-> s, key |-> "", val |-> Nil, found |-> FALSE]

\* part_000:144-152
removeOldestOp(s) ==
    IF hasBack(s.queue)
    THEN [s |-> collect(removeElement(s, back(s.queue))), key |-> back(s.queue),
          val |-> s.elem[back(s.queue)].Value, found |-> TRUE]
    ELSE [s |-> s, key |-> "", val |-> Nil, found |-> FALSE]

\* A faulty Purge that forgets the buckets; C7 does not hold of it.
purgeOpKeepsBuckets(s) ==
    collect([s EXCEPT !.items = {}, !.queue = <<>>])

\* part_000:78-90
purgeOp(s) ==
    collect([s EXCEPT !.items = {},
                      !.buckets = [b \in BucketIds |->
                                      [s.buckets[b] EXCEPT !.entries = {}]],
                      !.queue = <<>>])

\* The entry a new key's Add evicts, if any (history).
evicts(key) == key \notin items /\ atCapacity(Cache) /\ hasBack(queue)

Add(key, value) ==
    /\ Store(addOp(Cache, key, value))
    /\ ret' = Ret("Add", key, IF evicts(key) THEN back(queue) ELSE "", Nil, FALSE,
                  key \in items, evicts(key) /\ expired(elem[back(queue)]))
    /\ touched' = live(touch(touched, key), items')
    /\ UNCHANGED <<mu, cap, ttl, now, nextTick, tickC, sweeper>>

Get(key) ==
    LET r == getOp(Cache, key)
    IN  /\ Store(r.s)
        /\ ret' = Ret("Get", key, "", r.val, r.found, FALSE,
                      key \in items /\ expired(elem[key]))
        /\ touched' = IF r.found THEN touch(touched, key) ELSE touched
        /\ UNCHANGED <<mu, cap, ttl, now, nextTick, tickC, sweeper>>

Remove(key) ==
    LET r == removeOp(Cache, key)
    IN  /\ Store(r.s)
        /\ ret' = Ret("Remove", key, "", Nil, r.found, FALSE, FALSE)
        /\ touched' = live(touched, items')
        /\ UNCHANGED <<mu, cap, ttl, now, nextTick, tickC, sweeper>>

RemoveOldest ==
    LET r == removeOldestOp(Cache)
    IN  /\ Store(r.s)
        /\ ret' = Ret("RemoveOldest", "", r.key, r.val, r.found, FALSE,
                      hasBack(queue) /\ expired(elem[back(queue)]))
        /\ touched' = live(touched, items')
        /\ UNCHANGED <<mu, cap, ttl, now, nextTick, tickC, sweeper>>

Purge ==
    /\ Store(purgeOp(Cache))
    /\ ret' = Ret("Purge", "", "", Nil, FALSE, FALSE, FALSE)
    /\ touched' = live(touched, items')
    /\ UNCHANGED <<mu, cap, ttl, now, nextTick, tickC, sweeper>>

\* ------------------------------------------------------------ the sweeper
\* The runtime's ticker (part_000:62, 68): it sends on C every period without
\* blocking, so a tick that finds C full is dropped.
TickerDue == sweeper.pc \notin {"off", "starting", "panicked"} /\ now >= nextTick

TickerFire ==
    /\ TickerDue
    /\ tickC' = TRUE
    /\ nextTick' = nextTick + period
    /\ UNCHANGED <<mu, cap, ttl, queue, items, elem, buckets, nextCleanupBucket, now,
                   sweeper, ret, touched>>

\* A faulty cursor that stays where it is; C9 does not hold of it.
nextCursorStuck(cursor) == Uint8(cursor) % numBuckets

\* part_000:178
nextCursor(cursor) == Uint8(cursor + 1) % numBuckets

\* part_000:175-178, deleteExpired's last critical section: the loop over the
\* bucket read at the start, then the cursor
swept(s, bucketIdx) ==
    LET t == removeAll(s, s.buckets[bucketIdx].entries)
    IN  collect([t EXCEPT !.nextCleanupBucket = nextCursor(@)])

\* A faulty sweeper that never waits; C13 does not hold of it.
timeToExpireNone(bucketIdx) == 0

\* part_000:169: time.Until(newestEntry)
timeToExpire(bucketIdx) == buckets[bucketIdx].newestEntry - now

\* A tick waits in ticker.C for the sweeper's select (part_000:65-69).
TickWaiting == sweeper.pc = "idle" /\ tickC

\* case <-ticker.C, then deleteExpired with timeToExpire <= 0: one critical
\* section from Lock to Unlock (part_000:167-179).
SweepNoWait ==
    /\ TickWaiting
    /\ timeToExpire(nextCleanupBucket) <= 0
    /\ tickC' = FALSE
    /\ Store(swept(Cache, nextCleanupBucket))
    /\ touched' = live(touched, items')
    /\ UNCHANGED <<mu, cap, ttl, now, nextTick, sweeper, ret>>

\* case <-ticker.C, then deleteExpired with timeToExpire > 0: it unlocks and
\* sleeps (part_000:167-172).
SweepSleep ==
    /\ TickWaiting
    /\ timeToExpire(nextCleanupBucket) > 0
    /\ tickC' = FALSE
    /\ sweeper' = [pc |-> "sleeping", bucketIdx |-> nextCleanupBucket,
                   wakeAt |-> now + timeToExpire(nextCleanupBucket)]
    /\ UNCHANGED <<mu, cap, ttl, queue, items, elem, buckets, nextCleanupBucket, now,
                   nextTick, ret, touched>>

SleepOver == sweeper.pc = "sleeping" /\ now >= sweeper.wakeAt

\* The sleep is over (part_000:173-179): lock again, clear the bucket read
\* before the sleep, advance the cursor.
SweepWake ==
    /\ SleepOver
    /\ Store(swept(Cache, sweeper.bucketIdx))
    /\ sweeper' = [pc |-> "idle", bucketIdx |-> 0, wakeAt |-> 0]
    /\ touched' = live(touched, items')
    /\ UNCHANGED <<mu, cap, ttl, now, nextTick, tickC, ret>>

\* ---------------------------------------------------------------- the clock
Tick(limit) ==
    /\ now < limit
    /\ ~TickerDue
    /\ ~TickWaiting
    /\ ~SleepOver
    /\ now' = now + 1
    /\ UNCHANGED <<mu, cap, ttl, queue, items, elem, buckets, nextCleanupBucket,
                   nextTick, tickC, sweeper, ret, touched>>

AdvanceTime == Tick(MaxTime)

\* --------------------------------------------------------- specifications
Next ==
    \/ \E key \in Keys, value \in Values : Add(key, value)
    \/ \E key \in Keys : Get(key)
    \/ \E key \in Keys : Remove(key)
    \/ RemoveOldest
    \/ Purge
    \/ TickerFire
    \/ SweepNoWait
    \/ SweepSleep
    \/ SweepWake
    \/ AdvanceTime

Spec == Init /\ [][Next]_vars

\* ---------------------------------------------- whole cycles of the sweeper
\* A second specification follows the sweeper around the ring more than
\* once, with expiration on and a tick at every instant, under every
\* interleaving of the callers' operations on two keys.
SweepKeys == {"A", "B"}
MaxTimeSweeping == 3 * numBuckets

InitSweeping == \E capIn \in {1, 2} : NewLRU(capIn, numBuckets)

RunTime == Tick(MaxTimeSweeping)

NextSweeping ==
    \/ \E key \in SweepKeys : Add(key, 1)
    \/ \E key \in SweepKeys : Get(key)
    \/ \E key \in SweepKeys : Remove(key)
    \/ RemoveOldest
    \/ Purge
    \/ TickerFire
    \/ SweepNoWait
    \/ SweepSleep
    \/ SweepWake
    \/ RunTime

SpecSweeping == InitSweeping /\ [][NextSweeping]_vars

\* ------------------------------------------------------ the sweeper, fairly
\* A third specification states what the runtime guarantees the goroutine:
\* the ticker delivers its ticks, the goroutine runs when its select or its
\* sleep can return, and time passes.  The callers are under no obligation.
\* They add and remove; Adds stop after LastAdd, so that every newestEntry is
\* at most LastAdd + ttl, and the clock runs until the cursor has gone around
\* the ring once more after that.
LastAdd == numBuckets
MaxTimeLive == LastAdd + 2 * numBuckets + 1

InitLive == NewLRU(2, numBuckets)

AddEarly(key) == now <= LastAdd /\ Add(key, 1)

PassTime == Tick(MaxTimeLive)

NextLive ==
    \/ \E key \in SweepKeys : AddEarly(key)
    \/ \E key \in SweepKeys : Remove(key)
    \/ TickerFire
    \/ SweepNoWait
    \/ SweepSleep
    \/ SweepWake
    \/ PassTime

SweeperFairness ==
    /\ WF_vars(TickerFire)
    /\ WF_vars(SweepNoWait)
    /\ WF_vars(SweepSleep)
    /\ WF_vars(SweepWake)
    /\ WF_vars(PassTime)

SpecLive == InitLive /\ [][NextLive]_vars /\ SweeperFairness

\* ----------------------------------------------------------------- the mutex
\* A fourth specification shows c.mu between the sweeper's steps.  A caller's
\* operation is still one step, from its Lock to its deferred Unlock, and it
\* can start only when the mutex is free.
SweeperLocked(pc) == [pc |-> pc, bucketIdx |-> nextCleanupBucket, wakeAt |-> 0]

\* case <-ticker.C, then c.mu.Lock() and bucketIdx := c.nextCleanupBucket
\* (part_000:68, 167-168)
SweeperLock ==
    /\ TickWaiting
    /\ mu = "unlocked"
    /\ tickC' = FALSE
    /\ mu' = "sweeper"
    /\ sweeper' = SweeperLocked("locked")
    /\ UNCHANGED <<cap, ttl, queue, items, elem, buckets, nextCleanupBucket, now,
                   nextTick, ret, touched>>

\* The mutex keeps the holder it has; C11 does not hold of a sweeper that
\* goes to sleep with it.
unlockKept(holder) == holder

\* c.mu.Unlock() (part_000:171, 179)
unlock(holder) == "unlocked"

\* timeToExpire > 0: c.mu.Unlock() and time.Sleep (part_000:169-172)
SweeperSleep ==
    /\ sweeper.pc = "locked"
    /\ timeToExpire(sweeper.bucketIdx) > 0
    /\ mu' = unlock(mu)
    /\ sweeper' = [sweeper EXCEPT !.pc = "sleeping",
                                  !.wakeAt = now + timeToExpire(sweeper.bucketIdx)]
    /\ UNCHANGED <<cap, ttl, queue, items, elem, buckets, nextCleanupBucket, now,
                   nextTick, tickC, ret, touched>>

\* c.mu.Lock() after the sleep (part_000:173)
SweeperRelock ==
    /\ SleepOver
    /\ mu = "unlocked"
    /\ mu' = "sweeper"
    /\ sweeper' = [sweeper EXCEPT !.pc = "relocked"]
    /\ UNCHANGED <<cap, ttl, queue, items, elem, buckets, nextCleanupBucket, now,
                   nextTick, tickC, ret, touched>>

\* The loop, the cursor and c.mu.Unlock() (part_000:175-179)
SweeperSweep ==
    /\ \/ sweeper.pc = "relocked"
       \/ sweeper.pc = "locked" /\ timeToExpire(sweeper.bucketIdx) <= 0
    /\ Store(swept(Cache, sweeper.bucketIdx))
    /\ mu' = unlock(mu)
    /\ sweeper' = [pc |-> "idle", bucketIdx |-> 0, wakeAt |-> 0]
    /\ touched' = live(touched, items')
    /\ UNCHANGED <<cap, ttl, now, nextTick, tickC, ret>>

\* c.mu.Lock() at the head of a public method (part_000:79, 93, 121, 135, 145)
LockedAdd(key) == mu = "unlocked" /\ Add(key, 1)
LockedGet(key) == mu = "unlocked" /\ Get(key)
LockedRemove(key) == mu = "unlocked" /\ Remove(key)
LockedRemoveOldest == mu = "unlocked" /\ RemoveOldest
LockedPurge == mu = "unlocked" /\ Purge

\* Time passes while nobody is inside a critical section.
UnlockedTime == mu = "unlocked" /\ Tick(MaxTime)

NextLock ==
    \/ \E key \in SweepKeys : LockedAdd(key)
    \/ \E key \in SweepKeys : LockedGet(key)
    \/ \E key \in SweepKeys : LockedRemove(key)
    \/ LockedRemoveOldest
    \/ LockedPurge
    \/ TickerFire
    \/ SweeperLock
    \/ SweeperSleep
    \/ SweeperRelock
    \/ SweeperSweep
    \/ UnlockedTime

InitLock == NewLRU(1, numBuckets)

SpecLock == InitLock /\ [][NextLock]_vars

\* ------------------------------------------------- the sweeper's first step
\* The goroutine's first statement is time.NewTicker(ttl / numBuckets)
\* (part_000:62), which panics when its argument is not positive. NewLRU
\* leaves a goroutine with such a period in "starting"; one with a positive
\* period has its ticker from the first state on.
NewTickerPanics ==
    /\ sweeper.pc = "starting"
    /\ period <= 0
    /\ sweeper' = [sweeper EXCEPT !.pc = "panicked"]
    /\ UNCHANGED <<mu, cap, ttl, queue, items, elem, buckets, nextCleanupBucket, now,
                   nextTick, tickC, ret, touched>>

\* A panic in a goroutine ends the process: nothing runs after it.
Running == sweeper.pc # "panicked"

\* Every ttl from the smallest positive one up to one whole ring.
InitStart == \E capIn \in {1, 2}, ttlIn \in 1 .. numBuckets : NewLRU(capIn, ttlIn)

NextStart ==
    \/ Running /\ \E key \in SweepKeys : Add(key, 1)
    \/ Running /\ \E key \in SweepKeys : Get(key)
    \/ Running /\ \E key \in SweepKeys : Remove(key)
    \/ Running /\ RemoveOldest
    \/ Running /\ Purge
    \/ Running /\ TickerFire
    \/ Running /\ SweepNoWait
    \/ Running /\ SweepSleep
    \/ Running /\ SweepWake
    \/ Running /\ AdvanceTime
    \/ NewTickerPanics

SpecStart == InitStart /\ [][NextStart]_vars

\* ------------------------------------------------------------------ claims
\* The claims about one call are stated of the call's operator applied to
\* the cache of every reachable state: s is the cache before, t after.

\* The entries other than key are what they were: in the index, in their
\* bucket, with their fields, and in the same order in the list.
OthersKept(s, t, key) ==
    /\ t.items \ {key} = s.items \ {key}
    /\ listRemove(t.queue, key) = listRemove(s.queue, key)
    /\ \A j \in s.items \ {key} : t.elem[j] = s.elem[j]
    /\ \A b \in BucketIds : t.buckets[b].entries \ {key} = s.buckets[b].entries \ {key}

InNoBucket(s, key) == \A b \in BucketIds : key \notin s.buckets[b].entries

Gone(s, key) == key \notin s.items /\ ~InList(s.queue, key) /\ InNoBucket(s, key)

\* C1: for every capacity c >= 1 and every ttl, in every reachable state the
\* key index and the recency list hold the same number of entries, at most c.
C1_CapacityInvariant ==
    cap >= 1 => (Cardinality(items) = Len(queue) /\ Len(queue) <= cap)

\* An Add has just evicted at capacity 2, after the sweeper has moved the cursor.
C1_Witness ==
    /\ cap = 2 /\ Cardinality(items) = 2
    /\ ret.op = "Add" /\ ret.key # ""
    /\ nextCleanupBucket # 0

\* C2: with capacity c >= 1, an Add of a key that is not in the index while
\* the live count is c removes exactly one entry, the back of the list, which
\* is the entry touched longest ago (by an Add of its key or a Get of it that
\* found it), expired or not, and no other; with capacity 2,
\* Add(A,1); Add(B,2); Get(A); Add(C,3) leaves A and C retrievable, B absent.
C2_Eviction ==
    \A key \in Keys \ items, value \in Values :
        (cap >= 1 /\ Cardinality(items) = cap)
        => LET t == addOp(Cache, key, value)
               victim == touched[Len(touched)]
           IN  /\ victim = back(queue)
               /\ t.items = (items \ {victim}) \cup {key}
               /\ t.queue = <<key>> \o SubSeq(queue, 1, Len(queue) - 1)
               /\ Gone(t, victim)
               /\ \A j \in items \ {victim} : t.elem[j] = elem[j]
               /\ \A b \in BucketIds :
                     t.buckets[b].entries \ {key} = buckets[b].entries \ {victim}

C2_Example ==
    (cap = 2 /\ items = {}) =>
        LET s1 == addOp(Cache, "A", 1)
            s2 == addOp(s1, "B", 2)
            g == getOp(s2, "A")
            s4 == addOp(g.s, "C", 3)
        IN  /\ g.found /\ g.val = 1
            /\ s4.items = {"A", "C"}
            /\ getOp(s4, "A").found /\ getOp(s4, "C").found
            /\ ~getOp(s4, "B").found /\ Gone(s4, "B")

C3_Update ==
    \A key \in items, value \in Values :
        LET t == addOp(Cache, key, value)
        IN  /\ t.items = items
            /\ Len(t.queue) = Len(queue)
            /\ t.queue = <<key>> \o listRemove(queue, key)
            /\ t.elem[key].Value = value
            /\ t.elem[key].ExpiresAt = now + ttl
            /\ OthersKept(Cache, t, key)

C3_Example ==
    \A key \in Keys :
        LET s1 == addOp(Cache, key, 1)
            s2 == addOp(s1, key, 2)
            g == getOp(s2, key)
        IN  /\ g.found /\ g.val = 2
            /\ s2.items = s1.items
            /\ Len(s2.queue) = Len(s1.queue)

C4_ExpiredNotFound ==
    \A key \in Keys :
        (ttl > 0 /\ (key \in items => now > elem[key].AddedAt + ttl))
        => LET g == getOp(Cache, key)
           IN  ~g.found /\ g.val = Nil

\* A Get has just missed an entry that is past its expiry and still in the
\* index, its bucket not yet swept.
C4_Witness ==
    /\ ttl > 0 /\ ret.op = "Get" /\ ~ret.found /\ ret.stale
    /\ ret.arg \in items /\ now > elem[ret.arg].AddedAt + ttl

\* C5: with ttl = 0 no sweeper runs and entries never expire: a Get of a key
\* that is in the index returns its value and true, however late.
C5_TtlZeroNeverExpires ==
    ttl = 0 =>
        /\ sweeper.pc = "off"
        /\ \A key \in items :
              LET g == getOp(Cache, key)
              IN  g.found /\ g.val = elem[key].Value

\* C6: Remove(K) returns true exactly when K is in the index; after it K is
\* in neither the index, the list nor any bucket and every other entry is
\* unchanged; a second Remove(K) returns false and changes nothing, and
\* Add(K,v); Remove(K) returns true.
C6_RemoveRoundTrip ==
    \A key \in Keys :
        LET r == removeOp(Cache, key)
            again == removeOp(r.s, key)
        IN  /\ r.found = (key \in items)
            /\ Gone(r.s, key)
            /\ OthersKept(Cache, r.s, key)
            /\ r.s.nextCleanupBucket = nextCleanupBucket
            /\ ~again.found /\ again.s = r.s
            /\ \A value \in Values : removeOp(addOp(Cache, key, value), key).found

\* A Remove has just returned true and left another entry behind.
C6_Witness ==
    /\ ret.op = "Remove" /\ ret.found
    /\ Gone(Cache, ret.arg) /\ items # {}

\* C7: Purge, in any reachable state, leaves the index, the list and every
\* bucket empty, so that every Get misses; it leaves the cursor where it was,
\* and on an empty cache it changes nothing.
C7_PurgeCompleteness ==
    LET t == purgeOp(Cache)
    IN  /\ t.items = {} /\ t.queue = <<>>
        /\ \A b \in BucketIds : t.buckets[b].entries = {}
        /\ \A key \in Keys : ~getOp(t, key).found
        /\ t.nextCleanupBucket = nextCleanupBucket
        /\ (items = {} => t = Cache)

\* A Purge has just run while the sweeper sleeps, waiting for a bucket that
\* held entries.
C7_Witness ==
    /\ ret.op = "Purge" /\ items = {} /\ queue = <<>>
    /\ sweeper.pc = "sleeping" /\ now < sweeper.wakeAt

\* C8: RemoveOldest on a non-empty cache removes exactly the back of the list
\* from the index, the list and its bucket and returns its key and value with
\* found = true, expired or not; on an empty cache it returns found = false
\* and changes nothing.
C8_RemoveOldest ==
    LET r == removeOldestOp(Cache)
    IN  IF queue # <<>>
        THEN LET k == queue[Len(queue)]
             IN  /\ r.found /\ r.key = k /\ r.val = elem[k].Value
                 /\ k = touched[Len(touched)]
                 /\ r.s.items = items \ {k}
                 /\ r.s.queue = SubSeq(queue, 1, Len(queue) - 1)
                 /\ Gone(r.s, k)
                 /\ OthersKept(Cache, r.s, k)
        ELSE ~r.found /\ r.key = "" /\ r.val = Nil /\ r.s = Cache

\* RemoveOldest has just returned an entry that was already expired.
C8_Witness ==
    /\ ret.op = "RemoveOldest" /\ ret.found /\ ret.stale
    /\ Gone(Cache, ret.key)

\* C9: with ttl > 0, the sweeper scheduled fairly and time passing, an entry
\* added at time t and not added again is eventually in neither the index,
\* the list nor any bucket, whatever the callers do or do not do.
C9_EventuallyReclaimed ==
    \A key \in SweepKeys, t \in 1 .. LastAdd :
        (ttl > 0 /\ key \in items /\ elem[key].AddedAt = t)
        ~> (Gone(Cache, key) \/ (key \in items /\ elem[key].AddedAt > t))

\* The last call was an Add of a key that is now nowhere in the cache: only
\* the sweeper can have removed it.
C9_Witness ==
    /\ ttl > 0 /\ ret.op = "Add" /\ ret.arg # ""
    /\ Gone(Cache, ret.arg)

\* C10: with ttl = T > 0 and a tick every T / numBuckets, an entry added at t
\* and not added again is in neither the index, the list nor a bucket at any
\* time later than t + T + T / numBuckets.
C10_ReclaimedWithinOnePeriod ==
    \A key \in Keys :
        (ttl > 0 /\ ~Gone(Cache, key)) => now <= elem[key].AddedAt + ttl + period
\* C11: the sweeper holds the mutex only inside its critical sections, never
\* across its sleep: whenever it sleeps the mutex is free and every public
\* operation can take it and run to its end; whoever holds the mutex can
\* take a step, and when nobody holds it a caller can, so no state is a
\* deadlock.
C11_LockFreeWhileWaiting ==
    /\ sweeper.pc \in {"idle", "sleeping"} <=> mu = "unlocked"
    /\ sweeper.pc \in {"locked", "relocked"} <=> mu = "sweeper"
    /\ mu = "sweeper" => ENABLED (SweeperSleep \/ SweeperSweep)
    /\ sweeper.pc = "sleeping" =>
          /\ \A key \in SweepKeys :
                ENABLED LockedAdd(key) /\ ENABLED LockedGet(key)
                /\ ENABLED LockedRemove(key)
          /\ ENABLED LockedRemoveOldest
          /\ ENABLED LockedPurge
    /\ mu = "unlocked" => ENABLED LockedPurge

\* A caller's Add has run to its end while the sweeper sleeps: the last call
\* is an Add whose entry is newer than the sleep.
C11_Witness ==
    /\ sweeper.pc = "sleeping" /\ now < sweeper.wakeAt
    /\ mu = "unlocked"
    /\ ret.op = "Add" /\ ret.arg \in items
    /\ elem[ret.arg].ExpiresAt > sweeper.wakeAt

\* C12: with capacity 0 the capacity is never enforced: an Add of a new key
\* evicts nothing, on the empty cache (where the eviction finds no back) and
\* on every non-empty one, so that n Adds of n distinct keys leave n entries.
C12_ZeroCapacityUnbounded ==
    cap = 0 =>
        /\ Cardinality(items) = Len(queue)
        /\ \A key \in Keys \ items, value \in Values :
              LET t == addOp(Cache, key, value)
              IN  /\ t.items = items \cup {key}
                  /\ t.queue = <<key>> \o queue
                  /\ OthersKept(Cache, t, key)
        /\ items = {} =>
              LET s1 == addOp(Cache, "A", 1)
                  s2 == addOp(s1, "B", 1)
                  s3 == addOp(s2, "C", 1)
              IN  /\ atCapacity(Cache) /\ removeOldest(Cache) = Cache
                  /\ Cardinality(s1.items) = 1
                  /\ Cardinality(s2.items) = 2
                  /\ Cardinality(s3.items) = 3

\* Three Adds of three keys have left three entries in a cache of capacity 0.
C12_Witness ==
    /\ cap = 0 /\ ret.op = "Add" /\ ~ret.hit /\ ret.key = ""
    /\ Cardinality(items) = 3 /\ Len(queue) = 3

\* The keys a sweep of bucket bucketIdx takes out of the index.
DeletedBySweep(bucketIdx) == items \ swept(Cache, bucketIdx).items

\* C13: the sweeper destroys no entry before its time: when a sweep runs its
\* loop, at once or after its sleep, every entry it deletes has
\* expiresAt <= now, whatever the callers did before or during the sleep.
C13_NoPrematureSweep ==
    /\ (TickWaiting /\ timeToExpire(nextCleanupBucket) <= 0) =>
          \A key \in DeletedBySweep(nextCleanupBucket) : elem[key].ExpiresAt <= now
    /\ SleepOver =>
          \A key \in DeletedBySweep(sweeper.bucketIdx) : elem[key].ExpiresAt <= now

\* A sleep is over and its sweep is about to delete an entry, while an Add
\* made since has left an entry that is not yet expired.
C13_Witness ==
    /\ SleepOver /\ DeletedBySweep(sweeper.bucketIdx) # {}
    /\ ret.op = "Add" /\ ret.arg \in items
    /\ elem[ret.arg].ExpiresAt > now

\* Get(key) on cache s returns the value of the entry and true.
GetFinds(s, key) == getOp(s, key).found /\ getOp(s, key).val = elem[key].Value

\* C14: with ttl > 0, an entry added at t that no caller has removed, purged
\* or evicted is found by every Get at a time now <= t + ttl, also after the
\* sweeper cycle that can run at that time.
C14_FreshEntryFound ==
    \A key \in items :
        (ttl > 0 /\ now <= elem[key].AddedAt + ttl) =>
            /\ GetFinds(Cache, key)
            /\ (TickWaiting /\ timeToExpire(nextCleanupBucket) <= 0) =>
                  GetFinds(swept(Cache, nextCleanupBucket), key)
            /\ SleepOver => GetFinds(swept(Cache, sweeper.bucketIdx), key)

\* C15, as the code has it: while the sweeper sleeps on bucket b the cursor
\* stays at b, and an Add of any key places the entry in the bucket before b,
\* never in b: the sweep that follows the sleep leaves that entry alone.
C15_AddMissesSweptBucket ==
    sweeper.pc = "sleeping" =>
        /\ nextCleanupBucket = sweeper.bucketIdx
        /\ \A key \in SweepKeys :
              LET t == addOp(Cache, key, 1)
              IN  /\ t.elem[key].ExpireBucket = bucketIdFor(sweeper.bucketIdx)
                  /\ t.elem[key].ExpireBucket # sweeper.bucketIdx
                  /\ key \notin t.buckets[sweeper.bucketIdx].entries
                  /\ key \in swept(t, sweeper.bucketIdx).items

\* C15, as stated: while the sweeper sleeps on bucket b, an Add places the
\* entry into bucket b itself, where the same sweep deletes it.  (The bucket
\* of an Add is a function of the cursor, which does not move during the
\* sleep: if one Add during the sleep can land in b, every one does.)
C15_AddLandsInSweptBucket ==
    sweeper.pc = "sleeping" =>
        \A key \in SweepKeys :
            LET t == addOp(Cache, key, 1)
            IN  /\ t.elem[key].ExpireBucket = sweeper.bucketIdx
                /\ key \notin swept(t, sweeper.bucketIdx).items

\* The sweeper sleeps, a further tick has come since it fell asleep, and a
\* caller has added an entry at this instant, during the sleep.
C15_Witness ==
    /\ sweeper.pc = "sleeping" /\ tickC /\ now < sweeper.wakeAt
    /\ ret.op = "Add" /\ ret.arg \in items
    /\ elem[ret.arg].AddedAt = now
    /\ elem[ret.arg].ExpireBucket # sweeper.bucketIdx

\* C16: in every reachable state the index, the list and the union of the
\* buckets hold the same keys; each key is once in the list and in exactly
\* one bucket, the one its ExpireBucket names; no bucket holds a key that was
\* evicted, removed, swept or purged.
C16_StructuralConsistency ==
    /\ items = {queue[i] : i \in 1 .. Len(queue)}
    /\ Len(queue) = Cardinality(items)
    /\ UNION {buckets[b].entries : b \in BucketIds} = items
    /\ \A key \in items, b \in BucketIds :
          key \in buckets[b].entries <=> b = elem[key].ExpireBucket

\* An Add of a key already in the index has just placed it in another bucket
\* than an entry added at the same instant: the cursor moved in between.
C16_Witness ==
    /\ ret.op = "Add" /\ ret.hit
    /\ \E key \in items :
          /\ elem[key].ExpireBucket # elem[ret.arg].ExpireBucket
          /\ elem[key].AddedAt = elem[ret.arg].AddedAt

\* C17: every Add, of a new or an existing key, made while the cursor is n
\* leaves the entry in bucket (n - 1 + numBuckets) mod numBuckets and in no
\* other, with that bucket's newestEntry at least the entry's new expiresAt;
\* the index lies in the ring, it is the last bucket at n = 0, and with the
\* source's 100 buckets the uint8 sum never wraps.
C17_BucketAssignment ==
    /\ \A key \in SweepKeys :
          LET t == addOp(Cache, key, 1)
              n == nextCleanupBucket
              b == (n - 1 + numBuckets) % numBuckets
          IN  /\ b \in BucketIds
              /\ n = 0 => b = numBuckets - 1
              /\ t.elem[key].ExpireBucket = b
              /\ \A c \in BucketIds : key \in t.buckets[c].entries <=> c = b
              /\ t.elem[key].ExpiresAt = now + ttl
              /\ t.buckets[b].newestEntry >= t.elem[key].ExpiresAt
    /\ \A n \in 0 .. numBucketsSource - 1 :
          /\ numBucketsSource + n - 1 < 256
          /\ bucketIdIn(numBucketsSource, n) = (n - 1 + numBucketsSource) % numBucketsSource
          /\ bucketIdIn(numBucketsSource, n) \in 0 .. numBucketsSource - 1
    /\ bucketIdIn(numBucketsSource, 0) = 99

\* An Add at cursor 0 has just moved an entry into the last bucket of the
\* ring, out of a bucket that keeps another entry.
C17_Witness ==
    /\ ret.op = "Add" /\ ret.hit /\ nextCleanupBucket = 0
    /\ elem[ret.arg].ExpireBucket = numBuckets - 1
    /\ elem[ret.arg].AddedAt = now
    /\ \E key \in items : elem[key].ExpireBucket # numBuckets - 1

\* C18: in every reachable state the newestEntry of a bucket that has members
\* is the greatest expiresAt among them, also after members have left it.
C18_NewestIsMaximum ==
    \A b \in BucketIds :
        buckets[b].entries # {} =>
            /\ \E key \in buckets[b].entries :
                  buckets[b].newestEntry = elem[key].ExpiresAt
            /\ \A key \in buckets[b].entries :
                  buckets[b].newestEntry >= elem[key].ExpiresAt

\* C19: with ttl > 0, a Get that finds its key in the index with
\* now > expiresAt returns
\* found = false and destroys the entry: the key is then in neither the
\* index, the list nor a bucket, and no longer counts towards the capacity.
C19_GetDestroysExpired ==
    \A key \in items :
        (ttl > 0 /\ expired(elem[key])) =>
            LET g == getOp(Cache, key)
            IN  /\ ~g.found
                /\ Gone(g.s, key)
                /\ Cardinality(g.s.items) = Cardinality(items) - 1

\* C20: whenever ttl is not 0, the period ttl / numBuckets is positive and the
\* sweeper goroutine is running on its ticker (waiting for a tick, or asleep
\* inside a sweep), the smallest positive ttl included.
C20_SweeperRunsOnPositivePeriod ==
    ttl # 0 => /\ period > 0
               /\ sweeper.pc \in {"idle", "sleeping"}

====
